---- MODULE Spec2Model ----
(***************************************************************************)
(* A model of split_multitexts_on_same_page.py: split_multitext, which     *)
(* splits a file that shows a matn and its commentaries on the same page   *)
(* into one file per work, and clean, the cleaning transform it is given.  *)
(*                                                                         *)
(* A text is a sequence of tokens.  Every token stands for a run of        *)
(* characters that all belong to the same character classes of the         *)
(* script's regular expressions, and every literal of a regular expression *)
(* is a sequence of whole tokens: "PageV" is <<"P", "ageV">>, the sentinel *)
(* "NO_PAGE_NUMBER" is <<"NO_", "P", "AGE_NUMBER">>.  The regular          *)
(* expressions are operators that compute what Python's re computes:       *)
(* leftmost match, greedy or lazy repetition with backtracking.            *)
(***************************************************************************)
EXTENDS Integers, Sequences, FiniteSets, TLC

(***************************************************************************)
(* Tokens and the character classes the script's patterns use.             *)
(***************************************************************************)
NL == "\n"
SP == " "

\* Latin letters and the underscore: in \w and in the tag class of clean.
LatinTok == {"P", "ageV", "NO_", "AGE_NUMBER", "ms", "b", "META", "Header", "End", "yml"}
\* Arabic letters: in \w, counted by ar_cnt_file, not in the tag class.
ArabicTok == {"ar", "H", "Sh", "Ibn", "Qasim", "bab"}
DigitTok == {"1"}
PunctTok == {"#", ".", "|", "[", "]", "(", ")", "<", ">", "/"}
Tok == LatinTok \cup ArabicTok \cup DigitTok \cup PunctTok \cup {NL, SP}

Newline == {NL}                          \* [\r\n]
Space == {SP, NL}                        \* \s
Word == LatinTok \cup ArabicTok \cup DigitTok   \* \w
NotP == Tok \ {"P"}                      \* [^P]
NotNewline == Tok \ {NL}                 \* . without DOTALL
TagClass == LatinTok \cup {SP, "/"}      \* [/a-zA-Z=\-_"' ]
HashDotSpace == {"#", ".", SP}           \* [# .]
Opener == {"(", "["}                     \* [(\[]
Closer == {")", "]"}                     \* [\)\]]
NotCloser == Tok \ Closer                \* [^\)\]]

\* The literals of the script.
HeaderEnd == <<"#", "META", "#", "Header", "#", "End", "#">>
PageV == <<"P", "ageV">>
Page == <<"P", "ageV">>       \* "Page": in a text of tokens always the start of "PageV"
NO_PAGE_NUMBER == <<"NO_", "P", "AGE_NUMBER">>
HeadingMark == <<"#", "#", "#", SP, "|">>                  \* "### |"
HashiyaTag == <<"#", "#", "#", SP, "|", SP, "[", "H">>     \* "### | [" and the keyword
HashPage == <<"#", SP, "P", "ageV">>                       \* "# Page"

\* The number of characters of Arabic script a token stands for.
ArabicLen(t) ==
    CASE t = "ar" -> 1 [] t = "H" -> 5 [] t = "Sh" -> 8
      [] t = "Ibn" -> 3 [] t = "Qasim" -> 4 [] t = "bab" -> 3 [] OTHER -> 0

(***************************************************************************)
(* Helpers on sequences.                                                   *)
(***************************************************************************)
\* s from index a to index b (empty when b < a).
Slice(s, a, b) == IF b < a THEN <<>> ELSE SubSeq(s, a, b)

\* The literal lit stands in s at index i.
IsAt(s, i, lit) ==
    /\ i >= 1
    /\ i + Len(lit) - 1 <= Len(s)
    /\ \A k \in 1..Len(lit) : s[i + k - 1] = lit[k]

\* The length of the longest run of tokens of class S in s from index i.
RECURSIVE Span(_, _, _)
Span(s, i, S) ==
    IF i <= Len(s) /\ s[i] \in S THEN 1 + Span(s, i + 1, S) ELSE 0

\* The concatenation of a sequence of sequences: "".join(list).
RECURSIVE Join(_)
Join(ss) == IF ss = <<>> THEN <<>> ELSE Head(ss) \o Join(Tail(ss))

\* The largest element of a nonempty set of integers; 0 for the empty set.
MaxOf(S) == IF S = {} THEN 0 ELSE CHOOSE x \in S : \A y \in S : y <= x

\* The number of (possibly overlapping) places where lit stands in s.
Occurrences(s, lit) == Cardinality({i \in 1..Len(s) : IsAt(s, i, lit)})

(***************************************************************************)
(* The patterns of clean.  Each XMatch(s, i) is the number of tokens the   *)
(* pattern matches in s starting at index i, and 0 when it does not match   *)
(* there (no pattern of clean matches the empty string).                   *)
(***************************************************************************)
\* <[/a-zA-Z=\-_"' ]+>
TagMatch(s, i) ==
    LET n == Span(s, i + 1, TagClass)
    IN  IF /\ IsAt(s, i, <<"<">>)
           /\ n >= 1
           /\ IsAt(s, i + 1 + n, <<">">>)
        THEN n + 2 ELSE 0

\* PageV[^P]+P\w+ with \w+ as long as it can be: <<tokens up to and including the
\* "P" of the page id, longest run of \w after it>>, <<0, 0>> when it does not match.
PageNumberAt(s, i) ==
    LET n1 == Span(s, i + 2, NotP)
        n2 == Span(s, i + 2 + n1 + 1, Word)
    IN  IF /\ IsAt(s, i, PageV)
           /\ n1 >= 1
           /\ IsAt(s, i + 2 + n1, <<"P">>)
           /\ n2 >= 1
        THEN <<2 + n1 + 1, n2>> ELSE <<0, 0>>

\* (PageV[^P]+P\w+)[\r\n]*NO_PAGE_NUMBER: <<length of the match, length of group 1>>.
\* \w+ is greedy and gives tokens back until the sentinel follows.
NoPageMatch(s, i) ==
    LET pn == PageNumberAt(s, i)
        ok == {L \in 1..pn[2] :
                 IsAt(s, i + pn[1] + L + Span(s, i + pn[1] + L, Newline),
                      NO_PAGE_NUMBER)}
        L == MaxOf(ok)
    IN  IF pn[1] > 0 /\ ok # {}
        THEN <<pn[1] + L + Span(s, i + pn[1] + L, Newline) + 3, pn[1] + L>>
        ELSE <<0, 0>>

\* [\r\n]+#\s+[\r\n]+ : \s+ takes spaces and line breaks and gives back until the
\* match ends with a line break.
EmptyParMatch(s, i) ==
    LET n0 == Span(s, i, Newline)
        r == Span(s, i + n0 + 1, Space)
        ends == {k \in 2..r : s[i + n0 + k] = NL}
    IN  IF /\ n0 >= 1
           /\ IsAt(s, i + n0, <<"#">>)
           /\ ends # {}
        THEN n0 + 1 + MaxOf(ends) ELSE 0

\* "# Page": the match ends inside the token "ageV", whose "V" stays.
HashPageMatch(s, i) == IF IsAt(s, i, HashPage) THEN 4 ELSE 0

\* ### \|.+[\r\n]+[# .]+[\r\n]+Page.+
EmptySharhMatch(s, i) ==
    LET a == i + 5
        n1 == Span(s, a, NotNewline)
        n2 == Span(s, a + n1, Newline)
        n3 == Span(s, a + n1 + n2, HashDotSpace)
        n4 == Span(s, a + n1 + n2 + n3, Newline)
        b == a + n1 + n2 + n3 + n4
    IN  IF /\ IsAt(s, i, HeadingMark)
           /\ n1 >= 1 /\ n2 >= 1 /\ n3 >= 1 /\ n4 >= 1
           /\ IsAt(s, b, Page)
        THEN (b - i) + 1 + Span(s, b + 1, NotNewline) ELSE 0

\* # ([(\[](?:bab|far|fasl)[^\)\]]*[\)\]])\s*#? :
\* <<length of the match, length of group 1>>.
SubheadingMatch(s, i) ==
    LET n1 == Span(s, i + 4, NotCloser)
        c == i + 4 + n1
        n2 == Span(s, c + 1, Space)
        h == IF IsAt(s, c + 1 + n2, <<"#">>) THEN 1 ELSE 0
    IN  IF /\ IsAt(s, i, <<"#", SP>>)
           /\ i + 3 <= Len(s)
           /\ s[i + 2] \in Opener
           /\ s[i + 3] = "bab"
           /\ c <= Len(s)
           /\ s[c] \in Closer
        THEN <<(c - i) + 1 + n2 + h, (c - i) - 1>> ELSE <<0, 0>>

\* The pattern of the commentary tags as it would match with re.DOTALL: to the end
\* of the text.
HashiyaMatch_DotAll(s, i) ==
    LET n == Span(s, i + 8, Tok)
    IN  IF IsAt(s, i, HashiyaTag) /\ n >= 1 THEN 8 + n ELSE 0

\* ### \| \[hashiya.+ : without DOTALL, "." stops at the end of the line.
HashiyaMatch(s, i) ==
    LET n == Span(s, i + 8, NotNewline)
    IN  IF IsAt(s, i, HashiyaTag) /\ n >= 1 THEN 8 + n ELSE 0

\*  *ms\d+ * : the milestones split_multitext removes from the body.
MilestoneMatch(s, i) ==
    LET n0 == Span(s, i, {SP})
        n1 == Span(s, i + n0 + 1, DigitTok)
    IN  IF IsAt(s, i + n0, <<"ms">>) /\ n1 >= 1
        THEN n0 + 1 + n1 + Span(s, i + n0 + 1 + n1, {SP}) ELSE 0

\* The rules of clean, in the order clean applies them.
Rules == <<"tags", "nopage", "emptypar", "hashpage", "emptysharh",
           "subheading", "hashiya">>

RuleMatch(r, s, i) ==
    CASE r = "tags" -> TagMatch(s, i)
      [] r = "nopage" -> NoPageMatch(s, i)[1]
      [] r = "emptypar" -> EmptyParMatch(s, i)
      [] r = "hashpage" -> HashPageMatch(s, i)
      [] r = "emptysharh" -> EmptySharhMatch(s, i)
      [] r = "subheading" -> SubheadingMatch(s, i)[1]
      [] r = "hashiya" -> HashiyaMatch(s, i)
      [] r = "milestone" -> MilestoneMatch(s, i)

\* What the match of rule r at index i is replaced by.
RuleRepl(r, s, i) ==
    CASE r = "tags" -> <<>>
      [] r = "nopage" -> Slice(s, i, i + NoPageMatch(s, i)[2] - 1)
      [] r = "emptypar" -> <<NL>>
      [] r = "hashpage" -> Page
      [] r = "emptysharh" -> <<>>
      [] r = "subheading" ->
            HeadingMark \o <<SP>>
              \o Slice(s, i + 2, i + 1 + SubheadingMatch(s, i)[2])
              \o <<NL, "#", SP>>
      [] r = "hashiya" -> <<>>
      [] r = "milestone" -> <<SP>>

\* re.sub(rule r, replacement, s) from index i on: the leftmost match is replaced,
\* and the search goes on behind it.
RECURSIVE ReSubFrom(_, _, _)
ReSubFrom(r, s, i) ==
    IF i > Len(s) THEN <<>>
    ELSE LET n == RuleMatch(r, s, i)
         IN  IF n > 0 THEN RuleRepl(r, s, i) \o ReSubFrom(r, s, i + n)
             ELSE <<s[i]>> \o ReSubFrom(r, s, i + 1)

ReSub(r, s) == ReSubFrom(r, s, 1)

\* str.strip(): leading and trailing white space removed.
RECURSIVE LStrip(_)
LStrip(s) == IF s # <<>> /\ Head(s) \in Space THEN LStrip(Tail(s)) ELSE s

RECURSIVE RStrip(_)
RStrip(s) ==
    IF s # <<>> /\ s[Len(s)] \in Space THEN RStrip(SubSeq(s, 1, Len(s) - 1)) ELSE s

Strip(s) == RStrip(LStrip(s))

\* The text after the first n rules of clean.
RECURSIVE CleanRules(_, _)
CleanRules(s, n) == IF n = 0 THEN s ELSE ReSub(Rules[n], CleanRules(s, n - 1))

clean(s) == Strip(CleanRules(s, Len(Rules)))

(***************************************************************************)
(* The patterns and helpers of split_multitext.                            *)
(***************************************************************************)
\* re.split(lit, s) for a literal: the parts between the matches, which are searched
\* from the left and do not overlap.
RECURSIVE SplitLiteral(_, _, _, _)
SplitLiteral(s, lit, i, start) ==
    IF i > Len(s) THEN <<Slice(s, start, Len(s))>>
    ELSE IF IsAt(s, i, lit)
         THEN <<Slice(s, start, i - 1)>>
                \o SplitLiteral(s, lit, i + Len(lit), i + Len(lit))
         ELSE SplitLiteral(s, lit, i + 1, start)

\* [\r\n]*PageV[^P]+P[\w]+[\r\n]* : the number of tokens matched at index i, or 0.
PageMarkerMatch(s, i) ==
    LET n0 == Span(s, i, Newline)
        pn == PageNumberAt(s, i + n0)
    IN  IF pn[1] > 0
        THEN n0 + pn[1] + pn[2] + Span(s, i + n0 + pn[1] + pn[2], Newline)
        ELSE 0

\* re.split("([\r\n]*PageV[^P]+P[\w]+[\r\n]*)", s): the text before each match and,
\* for the capturing group, the match itself, then the text behind the last match.
RECURSIVE SplitPagesFrom(_, _, _)
SplitPagesFrom(s, i, start) ==
    IF i > Len(s) THEN <<Slice(s, start, Len(s))>>
    ELSE LET n == PageMarkerMatch(s, i)
         IN  IF n > 0
             THEN <<Slice(s, start, i - 1), Slice(s, i, i + n - 1)>>
                    \o SplitPagesFrom(s, i + n, i + n)
             ELSE SplitPagesFrom(s, i + 1, start)

SplitPages(s) == SplitPagesFrom(s, 1, 1)

\* page.startswith("Page")
StartsWithPage(page) == IsAt(page, 1, Page)

\* The sentinel appended when no segment follows: "\nNO_PAGE_NUMBER\n".
NoPageNumber == <<NL>> \o NO_PAGE_NUMBER \o <<NL>>

\* The keys of texts_d in the order of the dictionary: the patterns of the matn, of
\* the commentary of al-Shirwani and of the commentary of Ibn Qasim.
Keys == <<"matn", "shirwani", "ibnqasim">>
KeySet == {Keys[n] : n \in 1..Len(Keys)}

\* The least index of S, or 0 when S is empty.
MinOf(S) == IF S = {} THEN 0 ELSE CHOOSE x \in S : \A y \in S : x <= y

\* ### \| \[hashiya +<name> at index i: the number of tokens up to the end of the
\* commentator's name, or 0.  The name of Ibn Qasim is two words, "Ibn +Qasim".
CommentaryHead(k, s, i) ==
    LET n0 == Span(s, i + 8, {SP})
        a == i + 8 + n0
        n1 == Span(s, a + 1, {SP})
    IN  IF ~(IsAt(s, i, HashiyaTag) /\ n0 >= 1) THEN 0
        ELSE IF k = "shirwani"
             THEN IF IsAt(s, a, <<"Sh">>) THEN 8 + n0 + 1 ELSE 0
             ELSE IF IsAt(s, a, <<"Ibn">>) /\ n1 >= 1 /\ IsAt(s, a + 1 + n1, <<"Qasim">>)
                  THEN 8 + n0 + 1 + n1 + 1 ELSE 0

\* re.findall(k, page, flags=re.DOTALL), first element: <<TRUE, text>>, or
\* <<FALSE, <<>> >> when the list is empty (the [0] raises IndexError).
\*   matn:       \A.*?(?=### \| \[hashiya)
\*   commentary: (### \| \[hashiya +<name>.+?)(?=### \| \[hashiya|\Z)
FindallFirst(k, page) ==
    IF k = "matn"
    THEN LET p == MinOf({q \in 1..Len(page) : IsAt(page, q, HashiyaTag)})
         IN  IF p = 0 THEN <<FALSE, <<>> >> ELSE <<TRUE, Slice(page, 1, p - 1)>>
    ELSE LET i == MinOf({q \in 1..Len(page) :
                           /\ CommentaryHead(k, page, q) > 0
                           /\ q + CommentaryHead(k, page, q) <= Len(page)})
             a == i + CommentaryHead(k, page, i)
             e == MinOf({q \in (a + 1)..(Len(page) + 1) :
                           q = Len(page) + 1 \/ IsAt(page, q, HashiyaTag)})
         IN  IF i = 0 THEN <<FALSE, <<>> >> ELSE <<TRUE, Slice(page, i, e - 1)>>

\* try: t = re.findall(k, page, flags=re.DOTALL)[0]  except: t = ""
Extract(k, page) == FindallFirst(k, page)[2]

\* re.split(r"[/\\]", fp)[-1]: the last component of the path.
UriOf(path) == Slice(path, MaxOf({q \in 1..Len(path) : path[q] = "/"}) + 1, Len(path))

\* Tokens of one character: what "." of a pattern matches (never a line break).
OneChar == (PunctTok \cup DigitTok \cup {"P", "b", "ar", SP})

\* uri used as a pattern at index i of s: its "." matches any character but a line
\* break, every other token of a file name matches itself.
UriMatch(pat, s, i) ==
    IF /\ Len(pat) >= 1
       /\ i + Len(pat) - 1 <= Len(s)
       /\ \A q \in 1..Len(pat) :
             IF pat[q] = "." THEN s[i + q - 1] \in OneChar
             ELSE s[i + q - 1] = pat[q]
    THEN Len(pat) ELSE 0

\* re.sub(uri, fn, yml_str) from index i on.
RECURSIVE SidecarSubFrom(_, _, _, _)
SidecarSubFrom(pat, repl, s, i) ==
    IF i > Len(s) THEN <<>>
    ELSE IF UriMatch(pat, s, i) > 0
         THEN repl \o SidecarSubFrom(pat, repl, s, i + Len(pat))
         ELSE <<s[i]>> \o SidecarSubFrom(pat, repl, s, i + 1)

SidecarSub(pat, repl, s) == SidecarSubFrom(pat, repl, s, 1)

\* ar_cnt_file(path, incl_editor_sections=True): the Arabic characters of a text.
RECURSIVE ArCnt(_)
ArCnt(s) == IF s = <<>> THEN 0 ELSE ArabicLen(Head(s)) + ArCnt(Tail(s))

\* sum([...]) over a sequence of numbers.
RECURSIVE Sum(_)
Sum(ns) == IF ns = <<>> THEN 0 ELSE Head(ns) + Sum(Tail(ns))

(***************************************************************************)
(* The state of a run of split_multitext, and of a call of clean.          *)
(***************************************************************************)
VARIABLES
    fp,          \* the path of the source file
    source,      \* the content of the file at fp
    yml_str,     \* the content of the file at fp + ".yml"
    clean_text,  \* TRUE: clean is passed as clean_text; FALSE: None
    texts_d,     \* key -> [fn, text]: the caller's dictionary
    header,      \* the local variable header
    text,        \* the local variable text
    pages,       \* the local variable pages
    i,           \* the index of the segment the loop is at (from 1)
    j,           \* the index of the descriptor a loop over texts_d is at
    fs,          \* the files of outfolder: path -> content
    printed,     \* what was printed: <<count of the source, sum of the counts>>
    pc,          \* where the run is
    cl_in,       \* clean: the argument of the call
    cl_text,     \* clean: the local variable text
    cl_rule,     \* clean: the number of rules applied (8: stripped and returned)
    cl_call      \* clean: 1 in the first call, 2 in the call on its result

vars == <<fp, source, yml_str, clean_text, texts_d, header, text, pages, i, j, fs,
          printed, pc, cl_in, cl_text, cl_rule, cl_call>>
runVars == <<fp, source, yml_str, clean_text, texts_d, header, text, pages, i, j,
             fs, printed, pc>>
cleanVars == <<cl_in, cl_text, cl_rule, cl_call>>

\* The path of an output document and of its sidecar in outfolder.
DocPath(fn) == fn
YmlPath(fn) == fn \o <<".", "yml">>

\* file.write(content) on the file at path.
WriteFile(files, path, content) ==
    [q \in DOMAIN files \cup {path} |-> IF q = path THEN content ELSE files[q]]

(***************************************************************************)
(* split_multitext.                                                        *)
(***************************************************************************)
\* The split with maxsplit=1: only the first marker splits.
HeaderParts_FirstOnly(doc) ==
    LET p == MinOf({q \in 1..Len(doc) : IsAt(doc, q, HeaderEnd)})
    IN  IF p = 0 THEN <<doc>>
        ELSE <<Slice(doc, 1, p - 1), Slice(doc, p + Len(HeaderEnd), Len(doc))>>

\* header, text = re.split("#META#Header#End#", text): ValueError unless the split
\* gives exactly two parts.
HeaderParts(doc) == SplitLiteral(doc, HeaderEnd, 1, 1)

SplitHeader ==
    /\ pc = "start"
    /\ LET parts == HeaderParts(source)
       IN  IF Len(parts) = 2
           THEN /\ header' = parts[1] \o HeaderEnd \o <<NL, NL>>
                /\ text' = parts[2]
                /\ pc' = "pages"
           ELSE /\ pc' = "raised"
                /\ UNCHANGED <<header, text>>
    /\ UNCHANGED <<fp, source, yml_str, clean_text, texts_d, pages, i, j, fs, printed>>
    /\ UNCHANGED cleanVars

\* text = re.sub(" *ms\d+ *", " ", text); pages = re.split(..., text)
SplitBody ==
    /\ pc = "pages"
    /\ text' = ReSub("milestone", text)
    /\ pages' = SplitPages(text')
    /\ i' = 1
    /\ pc' = "loop"
    /\ UNCHANGED <<fp, source, yml_str, clean_text, texts_d, header, j, fs, printed>>
    /\ UNCHANGED cleanVars

\* The loop without its test: every segment is taken for content.
IsContent_Always(page) == TRUE

\* if not page.startswith("Page")
IsContent(page) == ~StartsWithPage(page)

\* try: page_no = pages[i+1]  except: page_no = "\nNO_PAGE_NUMBER\n"
PageNo(pp, n) == IF n + 1 <= Len(pp) THEN pp[n + 1] ELSE NoPageNumber

\* The loop with "continue" in the except branch: no fragment when nothing matches.
AppendFragments_SkipFailed(d, page, page_no) ==
    [k \in DOMAIN d |->
        IF FindallFirst(k, page)[1]
        THEN [d[k] EXCEPT !.text = Append(@, Extract(k, page) \o page_no)]
        ELSE d[k]]

\* texts_d[k]["text"].append(t+page_no) for every k in texts_d
AppendFragments(d, page, page_no) ==
    [k \in DOMAIN d |->
        [d[k] EXCEPT !.text = Append(@, Extract(k, page) \o page_no)]]

\* One turn of "for i, page in enumerate(pages)".
LoopNext == IF i + 1 > Len(pages) THEN "write" ELSE "loop"

LoopSkip ==
    /\ pc = "loop"
    /\ ~IsContent(pages[i])
    /\ i' = i + 1
    /\ pc' = LoopNext
    /\ UNCHANGED <<fp, source, yml_str, clean_text, texts_d, header, text, pages, j,
                   fs, printed>>
    /\ UNCHANGED cleanVars

LoopAppend ==
    /\ pc = "loop"
    /\ IsContent(pages[i])
    /\ texts_d' = AppendFragments(texts_d, pages[i], PageNo(pages, i))
    /\ i' = i + 1
    /\ pc' = LoopNext
    /\ UNCHANGED <<fp, source, yml_str, clean_text, header, text, pages, j, fs,
                   printed>>
    /\ UNCHANGED cleanVars

\* One turn of the loop that writes the output document of a descriptor and its
\* sidecar.
WriteOutput ==
    /\ pc = "write"
    /\ LET d == texts_d[Keys[j]]
           doc == header \o Join(d.text)
           yml == SidecarSub(UriOf(fp), d.fn, yml_str)
       IN  fs' = WriteFile(WriteFile(fs, DocPath(d.fn), doc), YmlPath(d.fn), yml)
    /\ j' = IF j = Len(Keys) THEN 1 ELSE j + 1
    /\ pc' = IF j = Len(Keys) THEN "count" ELSE "write"
    /\ UNCHANGED <<fp, source, yml_str, clean_text, texts_d, header, text, pages, i,
                   printed>>
    /\ UNCHANGED cleanVars

\* The cleaning loop without "if clean_text".
AfterCount_Always == "clean"

\* The two counts are printed; nothing is compared and nothing else happens.
AfterCount == IF clean_text THEN "clean" ELSE "done"

CountChars ==
    /\ pc = "count"
    /\ printed' = <<ArCnt(source),
                    Sum([n \in 1..Len(Keys) |-> ArCnt(fs[DocPath(texts_d[Keys[n]].fn)])])>>
    /\ pc' = AfterCount
    /\ UNCHANGED <<fp, source, yml_str, clean_text, texts_d, header, text, pages, i, j,
                   fs>>
    /\ UNCHANGED cleanVars

\* One turn of the loop under "if clean_text": the file is read, cleaned, written.
CleanOutput ==
    /\ pc = "clean"
    /\ LET path == DocPath(texts_d[Keys[j]].fn)
       IN  fs' = WriteFile(fs, path, clean(fs[path]))
    /\ j' = IF j = Len(Keys) THEN 1 ELSE j + 1
    /\ pc' = IF j = Len(Keys) THEN "done" ELSE "clean"
    /\ UNCHANGED <<fp, source, yml_str, clean_text, texts_d, header, text, pages, i,
                   printed>>
    /\ UNCHANGED cleanVars

Next ==
    \/ SplitHeader
    \/ SplitBody
    \/ LoopSkip
    \/ LoopAppend
    \/ WriteOutput
    \/ CountChars
    \/ CleanOutput

(***************************************************************************)
(* clean, rule by rule, called on a text and then on its own result.       *)
(***************************************************************************)
CleanRule ==
    /\ cl_rule < Len(Rules)
    /\ cl_text' = ReSub(Rules[cl_rule + 1], cl_text)
    /\ cl_rule' = cl_rule + 1
    /\ UNCHANGED <<cl_in, cl_call>>
    /\ UNCHANGED runVars

CleanStrip ==
    /\ cl_rule = Len(Rules)
    /\ cl_text' = Strip(cl_text)
    /\ cl_rule' = cl_rule + 1
    /\ UNCHANGED <<cl_in, cl_call>>
    /\ UNCHANGED runVars

CleanAgain ==
    /\ cl_rule = Len(Rules) + 1
    /\ cl_call = 1
    /\ cl_call' = 2
    /\ cl_rule' = 0
    /\ cl_in' = cl_text
    /\ UNCHANGED cl_text
    /\ UNCHANGED runVars

NextClean == CleanRule \/ CleanStrip \/ CleanAgain

(***************************************************************************)
(* Inputs.  A text is built from at most n chunks; the chunks are the      *)
(* constructs the patterns of the script look for, and single tokens.      *)
(***************************************************************************)
RECURSIVE TextsOf(_, _)
TextsOf(chunks, n) ==
    IF n = 0 THEN {<<>>}
    ELSE LET T == TextsOf(chunks, n - 1)
         IN  T \cup {t \o c : t \in T, c \in chunks}

MaxChunks == 4          \* chunks of the body of a source document
MaxHeaderChunks == 4    \* chunks of a source document with any number of markers
MaxCleanChunks == 4     \* chunks of an argument of clean
MaxYml == 5             \* tokens of a sidecar

Marker == <<"P", "ageV", "1", "P", "1">>      \* a page marker, "PageV1P1"
ShirwaniNote == HashiyaTag \o <<SP, "Sh", "]", "ar">>
IbnQasimNote == HashiyaTag \o <<SP, "Ibn", SP, "Qasim", "]", "ar">>

BodyChunks ==
    {Marker, <<NL>>, <<SP>>, <<"ar">>, ShirwaniNote, IbnQasimNote, <<"ms", "1">>, PageV}

HeaderChunks ==
    {HeaderEnd, Tail(HeaderEnd), <<SP>>, <<"b">>, <<"<", "b", ">">>, <<NL>>, <<"ar">>,
     Marker}

CleanChunks ==
    {<<"<">>, <<">">>, <<"b">>, <<NL>>, <<"ar">>, <<"#", SP>>, Marker, NO_PAGE_NUMBER,
     HashiyaTag, <<"(", "bab", ")">>, <<"#", SP, ".">>}

\* The file names of the example call: the source, and one output per key.
SourcePath == <<"b", "/", "b", ".", "b">>
FileName(k) ==
    CASE k = "matn" -> <<"b", ".", "1">>
      [] k = "shirwani" -> <<"1", ".", "b">>
      [] k = "ibnqasim" -> <<"1", ".", "1">>

Header0 == <<"#", "b", NL>>
Yml0 == <<"#", "b", ".", "b", NL>>
Source0 == Header0 \o HeaderEnd \o <<"ar">> \o Marker

\* The state when split_multitext is called: the fragment lists are empty.
RunInit(src, ct, yml, path, fn1) ==
    /\ fp = path
    /\ source = src
    /\ yml_str = yml
    /\ clean_text = ct
    /\ texts_d = [k \in KeySet |->
                    [fn |-> IF k = "matn" THEN fn1 ELSE FileName(k), text |-> <<>>]]
    /\ header = <<>>
    /\ text = <<>>
    /\ pages = <<>>
    /\ i = 1
    /\ j = 1
    /\ fs = [q \in {} |-> <<>>]
    /\ printed = <<>>
    /\ pc = "start"

CleanIdle ==
    /\ cl_in = <<>>
    /\ cl_text = <<>>
    /\ cl_rule = Len(Rules) + 1
    /\ cl_call = 2

\* Runs on documents with one header-end marker and any body.
Init ==
    /\ \E b \in TextsOf(BodyChunks, MaxChunks), ct \in BOOLEAN :
          RunInit(Header0 \o HeaderEnd \o b, ct, Yml0, SourcePath, FileName("matn"))
    /\ CleanIdle

Spec == Init /\ [][Next]_vars

\* Runs on documents with any number of header-end markers.
InitHeader ==
    /\ \E d \in TextsOf(HeaderChunks, MaxHeaderChunks), ct \in BOOLEAN :
          RunInit(d, ct, Yml0, SourcePath, FileName("matn"))
    /\ CleanIdle

SpecHeader == InitHeader /\ [][Next]_vars

\* Runs with any sidecar, several source paths and several names of the first output.
Paths == {SourcePath, <<"b", ".", "b">>, <<"b", "b">>}
FirstNames == {FileName("matn"), <<"b">>, <<"b", ".", "b", "1">>}

InitSidecar ==
    /\ \E y \in TextsOf({<<"b">>, <<"1">>, <<".">>}, MaxYml), path \in Paths,
          fn1 \in FirstNames, ct \in BOOLEAN :
          RunInit(Source0, ct, y, path, fn1)
    /\ CleanIdle

SpecSidecar == InitSidecar /\ [][Next]_vars

\* Calls of clean.
InitClean ==
    /\ \E x \in TextsOf(CleanChunks, MaxCleanChunks) :
          /\ cl_in = x
          /\ cl_text = x
    /\ cl_rule = 0
    /\ cl_call = 1
    /\ RunInit(<<>>, FALSE, <<>>, <<>>, FileName("matn"))

SpecClean == InitClean /\ [][NextClean]_vars

(***************************************************************************)
(* Properties.                                                             *)
(***************************************************************************)
\* The splitting loop has finished.
AfterLoop == pc \in {"write", "count", "clean", "done"}

\* The page markers of the body: the matches re.split found.
NumMarkers == (Len(pages) - 1) \div 2

\* The fragment list of the descriptor with key k.
Fragments(k) == texts_d[k].text

\* The output document of the descriptor with key k as it is first written.
Assembled(k) == header \o Join(Fragments(k))

\* ---------------------------------------------------------------------------
\* C1 as stated: once the splitting loop has finished, every descriptor has exactly
\* as many fragments as the body has page markers.
C1_PageCountAsStated ==
    AfterLoop => \A k \in KeySet : Len(Fragments(k)) = NumMarkers

\* The marker matches that begin with a line break.
BrokenMarkers == {n \in 1..NumMarkers : pages[2 * n][1] = NL}

\* The texts before, between and behind the markers that start with "Page".
SkippedContents == {n \in 1..(NumMarkers + 1) : StartsWithPage(pages[2 * n - 1])}

\* C1, amended: once the splitting loop has finished, every descriptor has one
\* fragment for each of the P + 1 texts before, between and behind the P markers
\* that does not start with "Page", and one for every marker match that begins
\* with a line break: P + 1 fragments when there is no such text and no such
\* marker.
C1_FragmentCount ==
    AfterLoop =>
        \A k \in KeySet :
            Len(Fragments(k)) =
                NumMarkers + 1 - Cardinality(SkippedContents)
                  + Cardinality(BrokenMarkers)

\* Two markers, neither beginning with a line break: three fragments each.
C1_Witness ==
    /\ AfterLoop
    /\ NumMarkers = 2
    /\ BrokenMarkers = {}
    /\ SkippedContents = {}
    /\ \A k \in KeySet : Len(Fragments(k)) = 3

\* ---------------------------------------------------------------------------
\* The fragments the pairing of content and marker asks for: for each content
\* segment in source order, what the key extracts from it, then the marker that
\* follows it, or the sentinel when none follows.
PairedFragments(k) ==
    [n \in 1..(NumMarkers + 1) |->
        Extract(k, pages[2 * n - 1])
          \o (IF 2 * n <= Len(pages) THEN pages[2 * n] ELSE NoPageNumber)]

\* C2: once the splitting loop has finished, the fragments of every descriptor are
\* the content extracted from each content segment, each followed by the page
\* marker that follows that segment, or by the sentinel, in source order.
C2_MarkerPairing ==
    AfterLoop => \A k \in KeySet : Fragments(k) = PairedFragments(k)

\* ---------------------------------------------------------------------------
\* C3: a turn of the splitting loop never raises; a turn on a content segment
\* appends exactly one fragment to every descriptor, which is just the marker or
\* the sentinel when the pattern of the descriptor does not match; and all
\* descriptors keep the same number of fragments.
C3_ExtractionFailure ==
    [][pc = "loop" =>
          /\ pc' # "raised"
          /\ IsContent(pages[i]) =>
                \A k \in KeySet :
                    /\ Len(texts_d'[k].text) = Len(texts_d[k].text) + 1
                    /\ SubSeq(texts_d'[k].text, 1, Len(texts_d[k].text)) = texts_d[k].text
                    /\ ~FindallFirst(k, pages[i])[1] =>
                          texts_d'[k].text[Len(texts_d'[k].text)] = PageNo(pages, i)
          /\ \A k1, k2 \in KeySet : Len(texts_d'[k1].text) = Len(texts_d'[k2].text)
      ]_vars

\* A segment was processed on which one pattern matched and another did not.
C3_Witness ==
    /\ pc \in {"loop", "write"}
    /\ i > 1
    /\ IsContent(pages[i - 1])
    /\ FindallFirst("shirwani", pages[i - 1])[1]
    /\ ~FindallFirst("ibnqasim", pages[i - 1])[1]
    /\ Len(Fragments("ibnqasim")) = Len(Fragments("shirwani"))
    /\ Fragments("ibnqasim")[Len(Fragments("ibnqasim"))] = PageNo(pages, i - 1)

\* ---------------------------------------------------------------------------
\* Nothing has been done yet: no fragment, no file, nothing printed.
NoEffect ==
    /\ \A k \in KeySet : Fragments(k) = <<>>
    /\ DOMAIN fs = {}
    /\ printed = <<>>

\* C4 as stated: the run raises at the split of the header exactly when the
\* literal stands in the document zero times or more than once, and has done
\* nothing when it raises.
C4_HeaderEndAsStated ==
    pc # "start" =>
        /\ (pc = "raised") <=> (Occurrences(source, HeaderEnd) # 1)
        /\ pc = "raised" => NoEffect

\* The occurrences of lit a scan from the left finds, each starting behind the end
\* of the one before.
RECURSIVE ScanCount(_, _, _)
ScanCount(s, lit, n) ==
    IF n > Len(s) THEN 0
    ELSE IF IsAt(s, n, lit) THEN 1 + ScanCount(s, lit, n + Len(lit))
    ELSE ScanCount(s, lit, n + 1)

\* C4, amended: the run raises at the split of the header exactly when the number
\* of occurrences of the literal that do not overlap, scanned from the left, is
\* zero or more than one, and has done nothing when it raises.
C4_HeaderEnd ==
    pc # "start" =>
        /\ (pc = "raised") <=> (ScanCount(source, HeaderEnd, 1) # 1)
        /\ pc = "raised" => NoEffect

\* A document with two markers was refused.
C4_Witness ==
    /\ pc = "raised"
    /\ ScanCount(source, HeaderEnd, 1) = 2

\* ---------------------------------------------------------------------------
\* The text of the source before the header-end marker, with the marker.
SourceHeader == HeaderParts(source)[1] \o HeaderEnd

\* C5: at the end of the run every output document begins with the text of the
\* source before the header-end marker followed by the marker.
C5_HeaderPreserved ==
    pc = "done" =>
        \A k \in KeySet : IsAt(fs[DocPath(texts_d[k].fn)], 1, SourceHeader)

\* ---------------------------------------------------------------------------
\* C6: clean called on a result of clean returns it unchanged.
C6_Idempotent ==
    (cl_call = 2 /\ cl_rule = Len(Rules) + 1) => cl_text = cl_in

\* ---------------------------------------------------------------------------
\* str.replace(old, new) on s from index n on: literal occurrences only.
RECURSIVE ReplaceLiteral(_, _, _, _)
ReplaceLiteral(s, old, new, n) ==
    IF n > Len(s) THEN <<>>
    ELSE IF old # <<>> /\ IsAt(s, n, old)
         THEN new \o ReplaceLiteral(s, old, new, n + Len(old))
         ELSE <<s[n]>> \o ReplaceLiteral(s, old, new, n + 1)

\* C7: the sidecar written for a descriptor is the source sidecar with every
\* occurrence of the base file name replaced by the output file name and nothing
\* else changed.  (The claim goes on: the sidecar then holds no occurrence of the
\* base file name unless the output file name holds one.)
C7_SidecarRenamed ==
    pc \in {"count", "clean", "done"} =>
        \A k \in KeySet :
            fs[YmlPath(texts_d[k].fn)]
              = ReplaceLiteral(yml_str, UriOf(fp), texts_d[k].fn, 1)

\* ---------------------------------------------------------------------------
\* Every output document and sidecar is in outfolder.
AllWritten ==
    \A k \in KeySet :
        {DocPath(texts_d[k].fn), YmlPath(texts_d[k].fn)} \subseteq DOMAIN fs

\* Every output document is as it was first written.
AllUncleaned == \A k \in KeySet : fs[DocPath(texts_d[k].fn)] = Assembled(k)

C8_Order ==
    /\ pc \in {"start", "pages", "loop", "write"} => printed = <<>>
    /\ pc = "count" => AllWritten /\ AllUncleaned /\ printed = <<>>
    /\ printed # <<>> =>
          /\ AllWritten
          /\ printed[1] = ArCnt(source)
          /\ printed[2] = Sum([n \in 1..Len(Keys) |-> ArCnt(Assembled(Keys[n]))])
    /\ pc = "clean" => clean_text /\ printed # <<>>
    /\ (pc = "done" /\ ~clean_text) => AllUncleaned /\ printed # <<>>

C8_CountStep ==
    pc = "count" =>
        /\ pc' \in {"clean", "done"}
        /\ fs' = fs
        /\ texts_d' = texts_d
        /\ printed' # <<>>

\* C8: every output document and sidecar is written before the counts are taken;
\* the counts are those of the documents as first written; printing them changes no
\* file and no descriptor and never ends the run, whether they agree or not; the
\* documents are cleaned only after the counts were printed and only when a
\* cleaning transform was passed.
C8_Phases == [](C8_Order) /\ [][C8_CountStep]_vars

\* The counts disagreed, and the run went on to its end without cleaning.
C8_Witness ==
    /\ pc = "done"
    /\ ~clean_text
    /\ printed # <<>>
    /\ printed[1] # printed[2]
    /\ AllUncleaned

\* ---------------------------------------------------------------------------
\* C9: the loop takes a segment for content exactly when it is one of the texts
\* between the markers (an odd place of the split), never when it is a marker.
C9_Classification ==
    pc = "loop" => (IsContent(pages[i]) <=> i % 2 = 1)

\* ---------------------------------------------------------------------------
\* clean is applying the rule of the commentary tags.
HashiyaStep == cl_rule = Len(Rules) - 1 /\ cl_rule' = Len(Rules)

\* The first commentary tag of s, 0 when there is none.
FirstTag(s) == MinOf({q \in 1..Len(s) : IsAt(s, q, HashiyaTag)})

\* C10 as stated: where a commentary tag remains, the rule deletes everything from
\* the first such tag to the end of the text.
C10_ToEndOfTextAsStated ==
    [][(HashiyaStep /\ FirstTag(cl_text) > 0) =>
          cl_text' = Slice(cl_text, 1, FirstTag(cl_text) - 1)]_vars

\* The lines of a text.
Lines(s) == SplitLiteral(s, <<NL>>, 1, 1)

\* A line without what follows its first commentary tag, the tag included, when at
\* least one character follows the tag on the line.
CutLine(l) ==
    LET p == MinOf({q \in 1..Len(l) : IsAt(l, q, HashiyaTag) /\ q + 8 <= Len(l)})
    IN  IF p = 0 THEN l ELSE Slice(l, 1, p - 1)

\* C10, amended: the rule deletes, on every line, everything from the first
\* commentary tag that at least one character follows to the end of that line; the
\* line breaks and all other lines stay.
C10_ToEndOfLine ==
    [][HashiyaStep =>
          /\ Len(Lines(cl_text')) = Len(Lines(cl_text))
          /\ \A n \in 1..Len(Lines(cl_text)) :
                Lines(cl_text')[n] = CutLine(Lines(cl_text)[n])]_vars

\* The rule has been applied to a text with a tag and its note on one line and
\* text on a later line, which is still there.
C10_Witness ==
    /\ cl_rule = Len(Rules)
    /\ cl_call = 1
    /\ LET before == CleanRules(cl_in, Len(Rules) - 1)
           p == FirstTag(before)
       IN  /\ p > 0
           /\ HashiyaMatch(before, p) > 0
           /\ p + HashiyaMatch(before, p) < Len(before)
           /\ cl_text = Slice(before, 1, p - 1)
                          \o Slice(before, p + HashiyaMatch(before, p), Len(before))
           /\ cl_text[Len(cl_text)] = "ar"

====
